---- MODULE Spec2Model ----
(***************************************************************************)
(* Model of chainer_chemistry/models/gin_gwm.py: the GIN_GWM chain.        *)
(*                                                                         *)
(* Tensors are abstracted to their shape plus a provenance tag saying      *)
(* which operation produced them; numeric contents are not modelled.       *)
(* One forward call (__call__) is split at its loop positions:             *)
(*   Call        lines 200-216  (embedding, GRU reset, super-node embed)   *)
(*   UpdateStep  line  218      (one call of update)                       *)
(*   ReadoutStep lines 219-221  (per-layer readout when concat_hidden)     *)
(*   Return      lines 223-234                                             *)
(* A failing assertion or a shape/index error of the tensor library is an  *)
(* exception that ends the forward call (pc = "error").                    *)
(* Inputs: atom_array is an int32 (mb, node) id array or a float           *)
(* (mb, node, ch) feature array; adj and super_node carry the minibatch    *)
(* size of atom_array; hidden_dim and hidden_dim_super keep their defaults.*)
(***************************************************************************)
EXTENDS Integers, Sequences, FiniteSets, TLC

\* ---------------------------------------------------------------- bounds
MaxLayers == 3      \* n_layers ranges over 1..MaxLayers
MaxOutDim == 2      \* out_dim ranges over 1..MaxOutDim
MaxMB     == 2      \* minibatch sizes 1..MaxMB
MaxAtom   == 2      \* node counts 1..MaxAtom
MaxFeat   == 1      \* extra (non hidden_dim) channel counts of float inputs
MaxCalls  == 2      \* forward calls made on one model object

\* ------------------------------------------------------ program constants
hidden_dim       == 16   \* default of __init__
hidden_dim_super == 16   \* default of __init__
n_edge_types     == 4    \* default of __init__ / NUM_EDGE_TYPE

VARIABLES
    self,        \* fields of the GIN_GWM object set by __init__
    gruLocal,    \* self.gwm.GRU_local state: 0 = reset, c = left by call c
    gruSuper,    \* self.gwm.GRU_super state: 0 = reset, c = left by call c
    pc,          \* position of the forward call
    callNo,      \* number of forward calls started so far
    atom_array,  \* argument of the running call: [shape, int32]
    adj,         \* argument of the running call: its shape
    h, g, h0,    \* locals of __call__
    step,        \* loop variable of __call__
    g_list,      \* local of __call__
    out,         \* value returned by the last completed call
    trace        \* operations performed by the running call, in order

vars == <<self, gruLocal, gruSuper, pc, callNo, atom_array, adj, h, g, h0,
          step, g_list, out, trace>>

\* ------------------------------------------------------------ tensors
ShapeError == <<>>
Tag(op, k) == [op |-> op, k |-> k]
Tensor(shape, tag) == [shape |-> shape, tag |-> tag]
NoTensor == Tensor(ShapeError, Tag("none", -1))
NoArg    == [shape |-> ShapeError, int32 |-> FALSE]
Result(shape, op, parts) == [shape |-> shape, op |-> op, parts |-> parts]
NoResult == Result(ShapeError, "none", <<>>)

\* numpy broadcasting of two dimensions
BroadcastDim(a, b) == IF a = b THEN a ELSE IF a = 1 THEN b ELSE IF b = 1 THEN a ELSE 0

\* ------------------------------------------------------------ __init__
NumLayer(weight_tying, n_layers) == IF weight_tying THEN 1 ELSE n_layers

NReadoutLayer(concat_hidden, n_layers) == IF concat_hidden THEN n_layers ELSE 1

GIN_GWM_init(out_dim, n_layers, concat_hidden, weight_tying) ==
    [ linear_g1     |-> NumLayer(weight_tying, n_layers),
      linear_g2     |-> NumLayer(weight_tying, n_layers),
      i_layers      |-> NReadoutLayer(concat_hidden, n_layers),
      j_layers      |-> NReadoutLayer(concat_hidden, n_layers),
      out_dim       |-> out_dim,
      n_layers      |-> n_layers,
      concat_hidden |-> concat_hidden,
      weight_tying  |-> weight_tying ]

\* ------------------------------------------------- tensor-library shapes
\* chainer_chemistry.functions.matmul(a, b): batched matrix product.
\* For operands of equal rank the batch and inner dimensions must agree.
\* For a rank-4 by rank-3 product the outcome depends on the installed
\* tensor library: a type-check error, or numpy-style batch broadcasting.
MatmulOutcomes(a, b) ==
    IF Len(a) = 3 /\ Len(b) = 3
    THEN IF a[1] = b[1] /\ a[3] = b[2] THEN {<<a[1], a[2], b[3]>>} ELSE {ShapeError}
    ELSE IF Len(a) = 4 /\ Len(b) = 3
    THEN {ShapeError} \cup
         (IF a[4] = b[2] /\ BroadcastDim(a[2], b[1]) # 0
          THEN {<<a[1], BroadcastDim(a[2], b[1]), a[3], b[3]>>} ELSE {})
    ELSE {ShapeError}

\* fv + h : elementwise addition with broadcasting of equal-rank operands
Add(a, b) ==
    IF Len(a) = 3 /\ Len(b) = 3 /\ \A i \in 1..3 : BroadcastDim(a[i], b[i]) # 0
    THEN [i \in 1..3 |-> BroadcastDim(a[i], b[i])]
    ELSE ShapeError

\* GraphLinear(in_size, out_size)(x) for x of shape (mb, atom, ch)
GraphLinear(in_size, out_size, x) ==
    IF Len(x) = 3 /\ x[3] = in_size THEN <<x[1], x[2], out_size>> ELSE ShapeError

\* F.concat((a, b), axis=2) of rank-3 operands
Concat2(a, b) ==
    IF Len(a) = 3 /\ Len(b) = 3 /\ a[1] = b[1] /\ a[2] = b[2]
    THEN <<a[1], a[2], a[3] + b[3]>> ELSE ShapeError

\* F.concat((a, b)) of rank-2 operands (default axis=1)
Concat1(a, b) ==
    IF Len(a) = 2 /\ Len(b) = 2 /\ a[1] = b[1]
    THEN <<a[1], a[2] + b[2]>> ELSE ShapeError

\* L.Linear(in_size=None, out_size)(x): in_size is fixed by the first input
Linear(out_size, x) ==
    IF Len(x) = 2 THEN <<x[1], out_size>> ELSE ShapeError

\* F.sum(x, axis=1) of a rank-3 operand
SumAxis1(x) == IF Len(x) = 3 THEN <<x[1], x[3]>> ELSE ShapeError

\* EmbedAtomID(out_size=hidden_dim)(atom_array) for (mb, node) atom ids
Embed(shape) == <<shape[1], shape[2], hidden_dim>>

\* L.Linear(n_super_feature, hidden_dim_super)(super_node); the super-node
\* observation is taken with the minibatch size of atom_array
EmbedSuper(mb) == <<mb, hidden_dim_super>>

\* ------------------------------------------------------------ update
\* variant: the step is used as the index although the weights are tied
LayerIndex_step(weight_tying, stp) == stp

LayerIndex(weight_tying, stp) == IF weight_tying THEN 0 ELSE stp

\* variant: the first shape assertion is missing
FvAssert_skipped(fv, mb, atom, ch) == TRUE

\* assert(fv.shape == (mb, atom, ch))
FvAssert(fv, mb, atom, ch) == fv = <<mb, atom, ch>>

\* assert(sum_h.shape == (mb, atom, ch))
SumHAssert(sum_h, mb, atom, ch) == sum_h = <<mb, atom, ch>>

UpdateFail(why, li) ==
    [res |-> why, layer_index |-> li, gwm_index |-> -1,
     new_h |-> NoTensor, new_g |-> NoTensor]

\* self.gwm(h, out_h, g, layer_index): mixes local and super-node states,
\* returning tensors shaped like h and g
GWM(hh, out_h, gg, index) ==
    [new_h |-> hh.shape, new_g |-> gg.shape, index |-> index]

\* update(h, adj, g, step) once matmul has produced fv
UpdateWith(slf, hh, gg, stp, fv) ==
    LET mb   == hh.shape[1]
        atom == hh.shape[2]
        ch   == hh.shape[3]
        li   == LayerIndex(slf.weight_tying, stp)
        sum_h == Add(fv, hh.shape)
        o1   == GraphLinear(hidden_dim, hidden_dim, sum_h)
        o2   == GraphLinear(hidden_dim, hidden_dim, o1)
        w    == GWM(hh, o2, gg, li)
    IN  IF fv = ShapeError THEN UpdateFail("matmul", li)
        ELSE IF ~FvAssert(fv, mb, atom, ch) THEN UpdateFail("assert_fv", li)
        ELSE IF sum_h = ShapeError THEN UpdateFail("add", li)
        ELSE IF ~SumHAssert(sum_h, mb, atom, ch) THEN UpdateFail("assert_sum_h", li)
        ELSE IF li >= slf.linear_g1 THEN UpdateFail("index", li)
        ELSE IF o1 = ShapeError THEN UpdateFail("linear_g1", li)
        ELSE IF li >= slf.linear_g2 THEN UpdateFail("index", li)
        ELSE IF o2 = ShapeError THEN UpdateFail("linear_g2", li)
        ELSE [res |-> "ok", layer_index |-> li, gwm_index |-> w.index,
              new_h |-> Tensor(w.new_h, Tag("update", stp)),
              new_g |-> Tensor(w.new_g, Tag("update", stp))]

update(slf, hh, ad, gg, stp) ==
    { UpdateWith(slf, hh, gg, stp, fv) : fv \in MatmulOutcomes(ad, hh.shape) }

\* ------------------------------------------------------------ readout
\* variant: every per-layer readout uses the parameters of layer 0
ReadoutIndex_zero(concat_hidden, stp) == 0

ReadoutIndex(concat_hidden, stp) == IF concat_hidden THEN stp ELSE 0

readout(slf, hh, hh0, stp) ==
    LET index == ReadoutIndex(slf.concat_hidden, stp)
        cat   == Concat2(hh.shape, hh0.shape)
        gi    == GraphLinear(2 * hidden_dim, slf.out_dim, cat)
        gj    == GraphLinear(hidden_dim, slf.out_dim, hh.shape)
    IN  IF index >= slf.i_layers \/ index >= slf.j_layers
        THEN [res |-> "index", index |-> index, g |-> NoTensor]
        ELSE IF cat = ShapeError \/ gi = ShapeError \/ gj = ShapeError \/ gi # gj
        THEN [res |-> "shape", index |-> index, g |-> NoTensor]
        ELSE [res |-> "ok", index |-> index,
              g |-> Tensor(SumAxis1(gi), Tag("readout", index))]

\* ------------------------------------------------------------ trace
Event(op, stp, index, gwmi, res, tin, gin, tout, gout, gl, gs) ==
    [op |-> op, step |-> stp, index |-> index, gwm_index |-> gwmi, res |-> res,
     hin |-> tin, gin |-> gin, hout |-> tout, gout |-> gout,
     gruLocal |-> gl, gruSuper |-> gs]

\* ------------------------------------------------------------ inputs
FeatDims == {hidden_dim} \cup 1..MaxFeat

AtomArrays ==
    { [shape |-> <<mb, n>>, int32 |-> TRUE] : mb \in 1..MaxMB, n \in 1..MaxAtom }
    \cup
    { [shape |-> <<mb, n, c>>, int32 |-> FALSE] :
          mb \in 1..MaxMB, n \in 1..MaxAtom, c \in FeatDims }

\* adjacency arguments for a minibatch of mb molecules: rank 3 as update
\* expects, or rank 4 with a relation-type axis as __call__ documents
Adjs(mb) ==
    { <<mb, a, b>> : a \in 1..MaxAtom, b \in 1..MaxAtom }
    \cup
    { <<mb, n_edge_types, n, n>> : n \in 1..MaxAtom }

\* variant: the recurrent state survives the reset
reset_state_kept(s) == s

\* GRU_local.reset_state() / GRU_super.reset_state()
reset_state(s) == 0

\* ------------------------------------------------------------ Init
Init ==
    /\ \E od \in 1..MaxOutDim, nl \in 1..MaxLayers, ch \in BOOLEAN, wt \in BOOLEAN :
           self = GIN_GWM_init(od, nl, ch, wt)
    /\ gruLocal = 0
    /\ gruSuper = 0
    /\ pc = "idle"
    /\ callNo = 0
    /\ atom_array = NoArg
    /\ adj = ShapeError
    /\ h = NoTensor
    /\ g = NoTensor
    /\ h0 = NoTensor
    /\ step = 0
    /\ g_list = <<>>
    /\ out = NoResult
    /\ trace = <<>>

\* ------------------------------------------------------------ __call__
\* lines 200-216: entry of a forward call up to the loop
Call ==
    /\ pc \in {"idle", "returned", "error"}
    /\ callNo < MaxCalls
    /\ \E aa \in AtomArrays : \E ad \in Adjs(aa.shape[1]) :
         LET hh == Tensor(IF aa.int32 THEN Embed(aa.shape) ELSE aa.shape, Tag("input", -1))
             gg == Tensor(EmbedSuper(aa.shape[1]), Tag("input", -1))
         IN  /\ atom_array' = aa
             /\ adj' = ad
             /\ h' = hh
             /\ g' = gg
             /\ h0' = hh
             /\ trace' = << Event("reset", -1, -1, -1, "ok", NoTensor, NoTensor,
                                  NoTensor, NoTensor, gruLocal, gruSuper) >>
    /\ gruLocal' = reset_state(gruLocal)
    /\ gruSuper' = reset_state(gruSuper)
    /\ callNo' = callNo + 1
    /\ step' = 0
    /\ g_list' = <<>>
    /\ out' = NoResult
    /\ pc' = "loop"
    /\ UNCHANGED self

\* variant: the loop stops one layer early
LoopDone_early(slf, stp) == stp >= slf.n_layers - 1

\* line 217: for step in range(self.n_layers) -- TRUE when the range is exhausted
LoopDone(slf, stp) == stp >= slf.n_layers

\* line 218: h, g = self.update(h, adj, g, step)
UpdateStep ==
    /\ pc = "loop"
    /\ ~LoopDone(self, step)
    /\ \E r \in update(self, h, adj, g, step) :
         /\ trace' = Append(trace, Event("update", step, r.layer_index, r.gwm_index, r.res,
                                         h, g, r.new_h, r.new_g, gruLocal, gruSuper))
         /\ IF r.res = "ok"
            THEN /\ h' = r.new_h
                 /\ g' = r.new_g
                 /\ gruLocal' = callNo
                 /\ gruSuper' = callNo
                 /\ IF self.concat_hidden
                    THEN pc' = "readout" /\ step' = step
                    ELSE pc' = "loop" /\ step' = step + 1
            ELSE /\ pc' = "error"
                 /\ h' = NoTensor
                 /\ g' = NoTensor
                 /\ UNCHANGED <<gruLocal, gruSuper, step>>
    /\ h0' = IF pc' = "error" THEN NoTensor ELSE h0
    /\ g_list' = IF pc' = "error" THEN <<>> ELSE g_list
    /\ UNCHANGED <<self, callNo, atom_array, adj, out>>

\* lines 219-221: g2 = self.readout(h, h0, step); g_list.append(g2)
ReadoutStep ==
    /\ pc = "readout"
    /\ LET r == readout(self, h, h0, step)
       IN  /\ trace' = Append(trace, Event("readout", step, r.index, -1, r.res,
                                           h, g, r.g, NoTensor, gruLocal, gruSuper))
           /\ IF r.res = "ok"
              THEN /\ g_list' = Append(g_list, r.g)
                   /\ step' = step + 1
                   /\ pc' = "loop"
                   /\ UNCHANGED <<h, g, h0>>
              ELSE /\ pc' = "error"
                   /\ g_list' = <<>>
                   /\ h' = NoTensor
                   /\ g' = NoTensor
                   /\ h0' = NoTensor
                   /\ UNCHANGED step
    /\ UNCHANGED <<self, gruLocal, gruSuper, callNo, atom_array, adj, out>>

\* F.concat(g_list, axis=1)
RECURSIVE ConcatList(_)
ConcatList(l) ==
    IF Len(l) = 0 THEN ShapeError
    ELSE IF Len(l) = 1 THEN l[1].shape
    ELSE Concat1(l[1].shape, ConcatList(Tail(l)))

\* lines 223-224: the value returned when concat_hidden
ReturnConcat(slf, gl) ==
    Result(ConcatList(gl), "concat", [i \in 1..Len(gl) |-> gl[i].tag])

\* variant: the concatenation with the super node is returned unprojected
ReturnSuper_unprojected(slf, hh, hh0, gg) ==
    LET r == readout(slf, hh, hh0, 0)
    IN  IF r.res # "ok" THEN NoResult
        ELSE Result(Concat1(r.g.shape, gg.shape), "out_g", <<r.g.tag, gg.tag>>)

\* lines 229-234: the value returned otherwise
ReturnSuper(slf, hh, hh0, gg) ==
    LET r  == readout(slf, hh, hh0, 0)
        g2 == Concat1(r.g.shape, gg.shape)
    IN  IF r.res # "ok" THEN NoResult
        ELSE Result(Linear(slf.out_dim, g2), "out_g", <<r.g.tag, gg.tag>>)

\* lines 223-234: end of the loop
Return ==
    /\ pc = "loop"
    /\ LoopDone(self, step)
    /\ LET o == IF self.concat_hidden THEN ReturnConcat(self, g_list)
                ELSE ReturnSuper(self, h, h0, g)
       IN  /\ out' = o
           /\ pc' = IF o.shape = ShapeError THEN "error" ELSE "returned"
           /\ trace' = IF self.concat_hidden THEN trace
                       ELSE Append(trace, Event("readout", 0,
                                readout(self, h, h0, 0).index, -1,
                                readout(self, h, h0, 0).res,
                                h, g, readout(self, h, h0, 0).g, NoTensor,
                                gruLocal, gruSuper))
    /\ h' = NoTensor
    /\ g' = NoTensor
    /\ h0' = NoTensor
    /\ g_list' = IF pc' = "error" THEN <<>> ELSE g_list
    /\ UNCHANGED <<self, gruLocal, gruSuper, callNo, atom_array, adj, step>>

Next == Call \/ UpdateStep \/ ReadoutStep \/ Return

Spec == Init /\ [][Next]_vars

TypeOK ==
    /\ pc \in {"idle", "loop", "readout", "returned", "error"}
    /\ callNo \in 0..MaxCalls
    /\ step \in 0..MaxLayers

\* ================================================================ claims
Updates == SelectSeq(trace, LAMBDA e : e.op = "update")
Readouts == SelectSeq(trace, LAMBDA e : e.op = "readout")
Running == pc \in {"loop", "readout"}

\* C1: a forward call that returns has performed exactly n_layers update
\* steps, numbered 0, 1, ..., n_layers-1 in that order; step k+1 receives as
\* h and g exactly the pair returned by step k, and the locals h and g always
\* hold the pair produced by the same (latest) step.
C1_StepsChained ==
    LET u == Updates
    IN  /\ Len(u) <= self.n_layers
        /\ \A i \in 1..Len(u) :
              /\ u[i].step = i - 1
              /\ i > 1 => /\ u[i - 1].res = "ok"
                          /\ u[i].hin = u[i - 1].hout
                          /\ u[i].gin = u[i - 1].gout
        /\ Running =>
              /\ h.tag = g.tag
              /\ Len(u) > 0 => h = u[Len(u)].hout /\ g = u[Len(u)].gout
        /\ pc = "returned" =>
              /\ Len(u) = self.n_layers
              /\ \A i \in 1..Len(u) : u[i].res = "ok"

C1_Witness ==
    /\ pc = "returned"
    /\ self.n_layers = MaxLayers
    /\ Len(Updates) = MaxLayers
    /\ Updates[MaxLayers].hin.tag = Tag("update", MaxLayers - 2)
    /\ Updates[MaxLayers].gin.tag = Tag("update", MaxLayers - 2)

\* C2: with weight tying one parameter set is allocated in linear_g1 and in
\* linear_g2 and every update step uses index 0 for linear_g1, linear_g2 and
\* the GWM call; without it n_layers sets are allocated and step k uses
\* index k; in both modes the index used is below the number allocated.
C2_WeightTying ==
    /\ self.linear_g1 = (IF self.weight_tying THEN 1 ELSE self.n_layers)
    /\ self.linear_g2 = (IF self.weight_tying THEN 1 ELSE self.n_layers)
    /\ \A i \in 1..Len(Updates) :
          LET e == Updates[i]
          IN  /\ e.index = (IF self.weight_tying THEN 0 ELSE e.step)
              /\ e.index < self.linear_g1
              /\ e.index < self.linear_g2
              /\ e.res # "index"
              /\ e.res = "ok" => e.gwm_index = e.index

C2_Witness ==
    /\ self.weight_tying
    /\ self.n_layers = MaxLayers
    /\ Len(Updates) = MaxLayers
    /\ Updates[MaxLayers].res = "ok"
    /\ Updates[MaxLayers].step = MaxLayers - 1
    /\ Updates[MaxLayers].index = 0

\* C3: with concat_hidden, readout runs once per layer, right after update
\* step k and before update step k+1, on the h produced by step k and with
\* readout parameter index k (in range of i_layers and j_layers); the value
\* returned is the concatenation of the n_layers readouts in layer order.
C3_ReadoutEachLayer ==
    self.concat_hidden =>
      /\ \A i \in 2..Len(trace) :
            LET e == trace[i]
                k == (i - 2) \div 2
            IN  /\ e.step = k
                /\ e.op = (IF (i - 2) % 2 = 0 THEN "update" ELSE "readout")
                /\ e.op = "readout" =>
                      /\ trace[i - 1].op = "update"
                      /\ trace[i - 1].res = "ok"
                      /\ e.hin = trace[i - 1].hout
                      /\ e.index = k
                      /\ e.index < self.i_layers
                      /\ e.index < self.j_layers
                      /\ e.res # "index"
      /\ pc = "loop" => Len(trace) = 1 + 2 * step
      /\ pc = "readout" => Len(trace) = 2 + 2 * step
      /\ pc = "returned" =>
            /\ Len(Readouts) = self.n_layers
            /\ \A i \in 1..Len(Readouts) : Readouts[i].res = "ok"
            /\ out.op = "concat"
            /\ out.parts = [i \in 1..self.n_layers |-> Tag("readout", i - 1)]
            /\ \A i \in 1..self.n_layers : Readouts[i].hout.tag = out.parts[i]

C3_Witness ==
    /\ self.concat_hidden
    /\ self.n_layers = MaxLayers
    /\ pc = "returned"
    /\ Len(out.parts) = MaxLayers
    /\ Readouts[MaxLayers].index = MaxLayers - 1

\* minibatch size of the running call
Minibatch == atom_array.shape[1]

C4_WitnessPlain ==
    /\ pc = "returned"
    /\ ~self.concat_hidden
    /\ self.n_layers = MaxLayers
    /\ out.shape = <<Minibatch, self.out_dim>>

\* the arguments have the shapes documented by __call__
DocumentedArgs ==
    /\ callNo > 0
    /\ atom_array.int32
    /\ Len(atom_array.shape) = 2
    /\ Len(adj) = 4
    /\ adj[1] = atom_array.shape[1]
    /\ adj[3] = atom_array.shape[2]
    /\ adj[4] = atom_array.shape[2]

\* C5: a forward call given adj of shape (minibatch, relation types, node,
\* node) and atom_array of shape (minibatch, node) does not fail: no shape
\* assertion or shape error of update ends it.
C5_DocumentedCallCompletes ==
    DocumentedArgs => pc # "error"

ShapeFailures == {"matmul", "assert_fv", "add", "assert_sum_h"}

\* C6: in every update step with h of shape (mb, atom, ch), if adj has shape
\* (mb, atom, atom) both shape assertions hold, and if adj has shape
\* (mb, a, atom) with a # atom the step ends in an assertion or shape error
\* and produces no new_h and new_g, which ends the forward call.
C6_ShapeAssertions ==
    \A i \in 1..Len(Updates) :
        LET e    == Updates[i]
            mb   == e.hin.shape[1]
            atom == e.hin.shape[2]
        IN  /\ adj = <<mb, atom, atom>> => e.res \notin ShapeFailures
            /\ (Len(adj) = 3 /\ adj[1] = mb /\ adj[3] = atom /\ adj[2] # atom) =>
                  /\ e.res \in ShapeFailures
                  /\ e.hout = NoTensor
                  /\ e.gout = NoTensor
                  /\ pc = "error"
                  /\ i = Len(Updates)

C6_Witness ==
    /\ pc = "error"
    /\ Len(Updates) = 1
    /\ Len(adj) = 3
    /\ adj[1] = Updates[1].hin.shape[1]
    /\ adj[3] = Updates[1].hin.shape[2]
    /\ adj[2] = 1
    /\ adj[3] = 2
    /\ Updates[1].res = "assert_fv"

C6_WitnessHolds ==
    /\ pc = "returned"
    /\ self.n_layers = MaxLayers
    /\ adj = <<Minibatch, MaxAtom, MaxAtom>>
    /\ \A i \in 1..MaxLayers : Updates[i].res = "ok"

\* C7: every forward call resets GRU_local and GRU_super before its first
\* update step, so no update step of any call sees recurrent state left by
\* an earlier call.
C7_GruReset ==
    /\ \A i \in 1..Len(Updates) :
          LET e == Updates[i]
          IN  /\ e.gruLocal \in {0, callNo}
              /\ e.gruSuper \in {0, callNo}
              /\ e.step = 0 => e.gruLocal = 0 /\ e.gruSuper = 0
    /\ (Running /\ Len(Updates) = 0) => gruLocal = 0 /\ gruSuper = 0

C7_Witness ==
    /\ callNo = 2
    /\ trace[1].op = "reset"
    /\ trace[1].gruLocal = 1
    /\ trace[1].gruSuper = 1
    /\ Len(Updates) >= 2
    /\ Updates[1].gruLocal = 0
    /\ Updates[2].gruLocal = 2

====
